---- MODULE Spec2Model ----
(***************************************************************************)
(* kurl: resolve a Kubernetes resource URL to a pod, open a port-forward   *)
(* to it and run the request against the local port.                       *)
(*                                                                         *)
(* Strings the code inspects character by character (host, labels, port)   *)
(* are sequences of one-character strings; strings it only copies or       *)
(* compares as a whole (scheme, path, pod labels) are TLA+ strings.        *)
(***************************************************************************)
EXTENDS Integers, Sequences, FiniteSets, TLC

VARIABLES
    args,        \* the command line after the program name
    addr,        \* history: the labels and port suffix the URL was written from
    rawURL,      \* the URL argument, as url.Parse sees it
    parsed,      \* result of parseKubernetesServiceURL: [target, err]
    cluster,     \* the cluster behind the KubeClient
    res,         \* the *ForwardTarget handed to the resolver
    resolved,    \* result of findTargetForServiceWithClient: [target, err]
    queries,     \* the KubeClient calls made so far, in order
    pc,          \* where the main goroutine is
    gpc,         \* where the port-forward goroutine is
    gerr,        \* the error runPortForward returned (Nil: none)
    target,      \* runPortForward's target: the descriptor after resolution
    pfReq,       \* the port-forward request: resource, namespace, name, ports
    dials,       \* connections to the port-forward endpoint attempted
    readyCh,     \* "nil" before make, then "open" or "closed"
    stopCh,      \* likewise
    exitStatus,  \* "running", or the status the process ended with
    printed,     \* the messages printed so far
    localPort,   \* the port findFreePort returned (0: none yet)
    listeners,   \* who listens on localhost:localPort, per address family
    connLost,    \* the connection to the pod was lost
    req,         \* the caller's request: [state, peer, client, url, argv]
    relayed,     \* responses relayed from the pod to the local connection
    cancels,     \* close(stopCh) calls made
    releases     \* times the tunnel's listeners were closed

inVars == <<args, addr, rawURL, cluster>>
resolverVars == <<res, resolved, queries>>
chanVars == <<readyCh, stopCh, cancels>>
tunnelVars == <<gpc, gerr, target, pfReq, dials, listeners, connLost, relayed, releases>>
procVars == <<pc, exitStatus, printed, localPort, req>>
vars == <<inVars, parsed, resolverVars, chanVars, tunnelVars, procVars>>

\* Go's nil / "not yet computed"
Nil == [nil |-> TRUE]
\* a function's pair of return values before it has run
NoResult == [target |-> Nil, err |-> Nil]

\* the process and tunnel variables when no invocation runs
NoListeners == [v4 |-> "none", v6 |-> "none"]
NoRequest ==
    [state |-> "none", peer |-> "none", client |-> "none", url |-> Nil, argv |-> Nil]
Quiet(p) ==
    /\ pc = p
    /\ gpc = "none"
    /\ gerr = Nil
    /\ target = Nil
    /\ pfReq = Nil
    /\ dials = 0
    /\ readyCh = "nil"
    /\ stopCh = "nil"
    /\ exitStatus = "running"
    /\ printed = {}
    /\ localPort = 0
    /\ listeners = NoListeners
    /\ connLost = FALSE
    /\ req = NoRequest
    /\ relayed = 0
    /\ cancels = 0
    /\ releases = 0
Idle == Quiet("idle")

(***************************************************************************)
(* Bounds                                                                  *)
(***************************************************************************)
\* host labels after the kind token (e.g. cluster.local)
MaxSuffix == 2

(***************************************************************************)
(* String helpers (package strings / strconv)                              *)
(***************************************************************************)
Lower == {"a","b","c","d","e","f","g","h","i","j","k","l","m",
          "n","o","p","q","r","s","t","u","v","w","x","y","z"}
Digits == {"0","1","2","3","4","5","6","7","8","9"}

\* strings.Split(s, sep) for a one-character separator: always at least one part
RECURSIVE SplitFrom(_, _, _, _)
SplitFrom(s, sep, i, cur) ==
    IF i > Len(s) THEN <<cur>>
    ELSE IF s[i] = sep THEN <<cur>> \o SplitFrom(s, sep, i + 1, <<>>)
    ELSE SplitFrom(s, sep, i + 1, Append(cur, s[i]))

Split(s, sep) == SplitFrom(s, sep, 1, <<>>)

RECURSIVE Join(_, _)
Join(parts, sep) ==
    IF Len(parts) = 0 THEN <<>>
    ELSE IF Len(parts) = 1 THEN parts[1]
    ELSE parts[1] \o <<sep>> \o Join(Tail(parts), sep)

DigitVal(c) ==
    CASE c = "0" -> 0 [] c = "1" -> 1 [] c = "2" -> 2 [] c = "3" -> 3
      [] c = "4" -> 4 [] c = "5" -> 5 [] c = "6" -> 6 [] c = "7" -> 7
      [] c = "8" -> 8 [] c = "9" -> 9

RECURSIVE StripZeros(_)
StripZeros(s) ==
    IF Len(s) > 1 /\ s[1] = "0" THEN StripZeros(Tail(s)) ELSE s

\* the decimal digits of the largest int (64-bit): 9223372036854775807
MaxIntDigits ==
    <<"9","2","2","3","3","7","2","0","3","6","8","5","4","7","7","5","8","0","7">>

\* lexicographic a > b for digit strings of equal length
RECURSIVE DigitsGreater(_, _)
DigitsGreater(a, b) ==
    IF Len(a) = 0 THEN FALSE
    ELSE IF DigitVal(a[1]) # DigitVal(b[1]) THEN DigitVal(a[1]) > DigitVal(b[1])
    ELSE DigitsGreater(Tail(a), Tail(b))

RECURSIVE DecimalValue(_, _)
DecimalValue(s, acc) ==
    IF Len(s) = 0 THEN acc ELSE DecimalValue(Tail(s), acc * 10 + DigitVal(s[1]))

\* strconv.Atoi on a non-empty string of digits: [val, err]; err on overflow of int
AtoiOverflows(s) ==
    LET t == StripZeros(s) IN
    \/ Len(t) > Len(MaxIntDigits)
    \/ Len(t) = Len(MaxIntDigits) /\ DigitsGreater(t, MaxIntDigits)

Atoi(s) ==
    IF AtoiOverflows(s) THEN [val |-> 0, err |-> TRUE]
    ELSE [val |-> DecimalValue(StripZeros(s), 0), err |-> FALSE]

(***************************************************************************)
(* net/url: the fields of a parsed URL the code reads                      *)
(***************************************************************************)
\* (*URL).Port(): the digits after the host's colon, "" without one
URLPort(u) ==
    LET p == Split(u.Host, ":") IN IF Len(p) < 2 THEN <<>> ELSE p[Len(p)]

(***************************************************************************)
(* curl.go: resource kinds, descriptor, parseKubernetesServiceURL          *)
(***************************************************************************)
resourceTypePod == "pods"
resourceTypeSvc == "services"
resourceTypeDeployment == "deployments"
resourceTypeStatefulSet == "statefulsets"
resourceTypeDaemonSet == "daemonsets"
resourceTypeReplicaSet == "replicasets"

ResourceTypes ==
    {resourceTypePod, resourceTypeSvc, resourceTypeDeployment,
     resourceTypeStatefulSet, resourceTypeDaemonSet, resourceTypeReplicaSet}

\* resourceNameRegex.MatchString: ^[a-z0-9]([-a-z0-9]*[a-z0-9])?$
resourceNameRegexBroken(s) ==
    /\ Len(s) >= 1
    /\ \A i \in 1..Len(s) : s[i] \in Lower \cup Digits \cup {"-"}

resourceNameRegex(s) ==
    /\ Len(s) >= 1
    /\ s[1] \in Lower \cup Digits
    /\ s[Len(s)] \in Lower \cup Digits
    /\ \A i \in 1..Len(s) : s[i] \in Lower \cup Digits \cup {"-"}

t_svc == <<"s","v","c">>
t_pod == <<"p","o","d">>
t_deploy == <<"d","e","p","l","o","y">>
t_deployment == <<"d","e","p","l","o","y","m","e","n","t">>
t_sts == <<"s","t","s">>
t_statefulset == <<"s","t","a","t","e","f","u","l","s","e","t">>
t_ds == <<"d","s">>
t_daemonset == <<"d","a","e","m","o","n","s","e","t">>
t_rs == <<"r","s">>
t_replicaset == <<"r","e","p","l","i","c","a","s","e","t">>

\* the if / else-if chain on parts[2]; Nil when no branch matches
kindOfTokenLoose(tok) ==
    IF tok = t_svc THEN resourceTypeSvc
    ELSE IF tok = t_pod THEN resourceTypePod
    ELSE IF tok = t_deploy \/ tok = t_deployment THEN resourceTypeDeployment
    ELSE IF tok = t_sts \/ tok = t_statefulset THEN resourceTypeStatefulSet
    ELSE IF tok = t_ds \/ tok = t_daemonset THEN resourceTypeDaemonSet
    ELSE IF tok = t_rs \/ tok = t_replicaset THEN resourceTypeReplicaSet
    ELSE resourceTypeSvc

kindOfToken(tok) ==
    IF tok = t_svc THEN resourceTypeSvc
    ELSE IF tok = t_pod THEN resourceTypePod
    ELSE IF tok = t_deploy \/ tok = t_deployment THEN resourceTypeDeployment
    ELSE IF tok = t_sts \/ tok = t_statefulset THEN resourceTypeStatefulSet
    ELSE IF tok = t_ds \/ tok = t_daemonset THEN resourceTypeDaemonSet
    ELSE IF tok = t_rs \/ tok = t_replicaset THEN resourceTypeReplicaSet
    ELSE "unsupported"

ParseErr(msg, arg) == [target |-> Nil, err |-> [msg |-> msg, arg |-> arg]]

\* host := strings.Split(parsedURL.Host, ":")[0]; parts := strings.Split(host, ".")
hostPartsWhole(u) == Split(u.Host, ".")

hostParts(u) == Split(Split(u.Host, ":")[1], ".")

\* the port of the descriptor: explicit port, else 443 for https, else 80
portOfPlain(u) ==
    LET portStr == URLPort(u) IN
    IF portStr = <<>> THEN [val |-> 80, err |-> FALSE] ELSE Atoi(portStr)

portOf(u) ==
    LET portStr == URLPort(u) IN
    IF portStr = <<>> THEN
        IF u.Scheme = "https" THEN [val |-> 443, err |-> FALSE]
        ELSE [val |-> 80, err |-> FALSE]
    ELSE Atoi(portStr)

\* rawURL as the format error prints it
RawText(u) == <<u.Scheme, ":", "/", "/">> \o u.Host \o u.Path

\* the checks in the order of the code: URL, label count, port, kind, name,
\* namespace (the variant converts the port before it counts the labels)
parseKubernetesServiceURLPortFirst(u) ==
    IF ~u.ok THEN ParseErr("invalid URL", <<>>)
    ELSE
    LET parts == hostParts(u)
        port == portOf(u)
    IN
    IF port.err THEN ParseErr("invalid port in URL", URLPort(u))
    ELSE IF Len(parts) < 3
         THEN ParseErr("invalid Kubernetes service URL format", RawText(u))
    ELSE IF kindOfToken(parts[3]) = "unsupported"
         THEN ParseErr("unsupported resource type", parts[3])
    ELSE IF ~resourceNameRegex(parts[1]) THEN ParseErr("invalid resource name", parts[1])
    ELSE IF ~resourceNameRegex(parts[2]) THEN ParseErr("invalid namespace", parts[2])
    ELSE [target |-> [namespace |-> parts[2], name |-> parts[1],
                      kind |-> kindOfToken(parts[3]), port |-> port.val],
          err |-> Nil]

\* (a variant that validates namespace and name before the kind token)
parseKubernetesServiceURLNamesFirst(u) ==
    IF ~u.ok THEN ParseErr("invalid URL", <<>>)
    ELSE
    LET parts == hostParts(u)
        port == portOf(u)
    IN
    IF Len(parts) < 3 THEN ParseErr("invalid Kubernetes service URL format", RawText(u))
    ELSE IF port.err THEN ParseErr("invalid port in URL", URLPort(u))
    ELSE IF ~resourceNameRegex(parts[2]) THEN ParseErr("invalid namespace", parts[2])
    ELSE IF ~resourceNameRegex(parts[1]) THEN ParseErr("invalid resource name", parts[1])
    ELSE IF kindOfToken(parts[3]) = "unsupported"
         THEN ParseErr("unsupported resource type", parts[3])
    ELSE [target |-> [namespace |-> parts[2], name |-> parts[1],
                      kind |-> kindOfToken(parts[3]), port |-> port.val],
          err |-> Nil]

parseKubernetesServiceURL(u) ==
    IF ~u.ok THEN ParseErr("invalid URL", <<>>)
    ELSE
    LET parts == hostParts(u)
        port == portOf(u)
    IN
    IF Len(parts) < 3 THEN ParseErr("invalid Kubernetes service URL format", RawText(u))
    ELSE IF port.err THEN ParseErr("invalid port in URL", URLPort(u))
    ELSE IF kindOfToken(parts[3]) = "unsupported"
         THEN ParseErr("unsupported resource type", parts[3])
    ELSE IF ~resourceNameRegex(parts[1]) THEN ParseErr("invalid resource name", parts[1])
    ELSE IF ~resourceNameRegex(parts[2]) THEN ParseErr("invalid namespace", parts[2])
    ELSE [target |-> [namespace |-> parts[2], name |-> parts[1],
                      kind |-> kindOfToken(parts[3]), port |-> port.val],
          err |-> Nil]

(***************************************************************************)
(* Inputs of the parser: URLs that url.Parse accepted (ok) or rejected     *)
(***************************************************************************)
SeqsUpTo(S, n) == UNION {[1..k -> S] : k \in 0..n}

n_web == <<"w","e","b">>
n_myapp == <<"m","y","-","a","p","p">>
n_a == <<"a">>
n_lead == <<"-","a">>
n_trail == <<"a","-">>
n_upper == <<"W","e","b">>
n_empty == <<>>
t_job == <<"j","o","b">>
t_Svc == <<"S","v","c">>
t_svcs == <<"s","v","c","s">>
l_cluster == <<"c","l","u","s","t","e","r">>
l_local == <<"l","o","c","a","l">>
ns_default == <<"d","e","f","a","u","l","t">>
ns_k8s == <<"k","-","8">>
ns_upper == <<"N","s">>
ns_trail == <<"n","-">>

Names == {n_web, n_myapp, n_a, n_lead, n_trail, n_upper, n_empty}
Namespaces == {ns_default, ns_k8s, ns_upper, ns_trail}
ValidTokens == {t_svc, t_pod, t_deploy, t_deployment, t_sts, t_statefulset,
                t_ds, t_daemonset, t_rs, t_replicaset}
KindTokens == ValidTokens \cup {t_job, t_Svc, t_svcs, n_empty}
SuffixLabels == {l_cluster, l_local}

p_80 == <<"8","0">>
p_8080 == <<"8","0","8","0">>
p_0 == <<"0">>
p_0080 == <<"0","0","8","0">>
p_65536 == <<"6","5","5","3","6">>
p_huge == <<"9","9","9","9","9","9","9","9","9","9","9","9","9","9","9","9","9","9","9","9">>
p_maxint1 == <<"9","2","2","3","3","7","2","0","3","6","8","5","4","7","7","5","8","0","8">>

\* ":" followed by the port digits; <<>> is a host without a colon
PortSuffixes ==
    {<<>>, <<":">>} \cup
    {<<":">> \o p : p \in {p_80, p_8080, p_0, p_0080, p_65536, p_huge, p_maxint1}}

Schemes == {"http", "https", "ftp"}
p_api == <<"/","a","p","i">>
Paths == {<<>>, p_api}

\* a url.URL: Path and Fragment are decoded; RawPath and RawFragment keep the
\* text as written when it is not the default encoding of the decoded form
MkURL(scheme, host, path) ==
    [ok |-> TRUE, Scheme |-> scheme, Host |-> host, Path |-> path, RawPath |-> <<>>,
     RawQuery |-> <<>>, Fragment |-> <<>>, RawFragment |-> <<>>]
BadURL ==
    [ok |-> FALSE, Scheme |-> "", Host |-> <<>>, Path |-> <<>>, RawPath |-> <<>>,
     RawQuery |-> <<>>, Fragment |-> <<>>, RawFragment |-> <<>>]

\* an address as written: host labels and the ":port" suffix
ParserAddrs ==
    {[labels |-> ls, port |-> p] :
        ls \in {<<n, ns, k>> \o sfx :
                    n \in Names, ns \in Namespaces, k \in KindTokens,
                    sfx \in SeqsUpTo(SuffixLabels, MaxSuffix)}
               \cup SeqsUpTo({n_web, n_a, t_svc}, 2),
        p \in PortSuffixes}

URLOf(scheme, a, path) == MkURL(scheme, Join(a.labels, ".") \o a.port, path)

(***************************************************************************)
(* The parser applied to every input                                       *)
(***************************************************************************)
InitParse ==
    /\ addr \in ParserAddrs
    /\ \/ rawURL \in {URLOf(s, addr, p_api) : s \in Schemes}
       \/ rawURL = BadURL
    /\ parsed = NoResult
    /\ cluster = Nil
    /\ res = Nil
    /\ resolved = NoResult
    /\ queries = <<>>
    /\ args = <<>>
    /\ Idle

ParseStep ==
    /\ parsed = NoResult
    /\ pc = "idle"
    /\ parsed' = parseKubernetesServiceURL(rawURL)
    /\ UNCHANGED <<inVars, resolverVars, chanVars, tunnelVars, procVars>>

NextParse == ParseStep

SpecParse == InitParse /\ [][NextParse]_vars

ParseDone == parsed # NoResult

(***************************************************************************)
(* curl.go: KubeClient and findTargetForServiceWithClient                  *)
(*                                                                         *)
(* A client is the cluster it talks to (at most one workload object, the   *)
(* pods in the order the API lists them) and whether its calls go through. *)
(* A selector is the set of labels a pod must carry.                       *)
(***************************************************************************)
WorkloadKinds ==
    {resourceTypeSvc, resourceTypeDeployment, resourceTypeStatefulSet,
     resourceTypeDaemonSet, resourceTypeReplicaSet}

\* which KubeClient getter each case of the switch calls
getterOfSwapped(kind) ==
    IF kind = resourceTypeSvc THEN "GetService" ELSE "GetDeployment"

getterOf(kind) ==
    CASE kind = resourceTypeSvc -> "GetService"
      [] kind = resourceTypeDeployment -> "GetDeployment"
      [] kind = resourceTypeStatefulSet -> "GetStatefulSet"
      [] kind = resourceTypeDaemonSet -> "GetDaemonSet"
      [] kind = resourceTypeReplicaSet -> "GetReplicaSet"

\* the kind of object each getter reads
kindRead(getter) ==
    CASE getter = "GetService" -> resourceTypeSvc
      [] getter = "GetDeployment" -> resourceTypeDeployment
      [] getter = "GetStatefulSet" -> resourceTypeStatefulSet
      [] getter = "GetDaemonSet" -> resourceTypeDaemonSet
      [] getter = "GetReplicaSet" -> resourceTypeReplicaSet

\* the word the "failed to get ..." message uses for each kind
kindWord(kind) ==
    CASE kind = resourceTypeSvc -> "service"
      [] kind = resourceTypeDeployment -> "deployment"
      [] kind = resourceTypeStatefulSet -> "statefulset"
      [] kind = resourceTypeDaemonSet -> "daemonset"
      [] kind = resourceTypeReplicaSet -> "replicaset"

\* RealKubeClient.Get<Kind>(namespace, name): the objects found (none: an error)
GetObjectAnyNamespace(client, getter, namespace, name) ==
    IF ~client.getOK THEN {}
    ELSE {w \in client.workloads : w.kind = kindRead(getter) /\ w.name = name}

GetObject(client, getter, namespace, name) ==
    IF ~client.getOK THEN {}
    ELSE {w \in client.workloads :
            w.kind = kindRead(getter) /\ w.namespace = namespace /\ w.name = name}

\* RealKubeClient.ListPods(namespace, selector): the pods of the namespace that
\* carry every label of the selector, in the order the API lists them
ListPodsAnyNamespace(client, namespace, selector) ==
    SelectSeq(client.pods, LAMBDA pod : selector \subseteq pod.labels)

\* (the variant reads a selector without labels as one that selects nothing)
ListPodsNothing(client, namespace, selector) ==
    IF selector = {} THEN <<>>
    ELSE SelectSeq(client.pods,
                   LAMBDA pod : pod.namespace = namespace /\ selector \subseteq pod.labels)

ListPods(client, namespace, selector) ==
    SelectSeq(client.pods,
              LAMBDA pod : pod.namespace = namespace /\ selector \subseteq pod.labels)

\* a result is [target, err]: the two return values; calls: the client calls
\* made; arg: the fields of *res when the function returns
ResolveErr(r, msg, values, calls) ==
    [target |-> r, err |-> [msg |-> msg, args |-> values], calls |-> calls, arg |-> r]

\* the tail of the function, after the switch: list, check, pick the first pod
pickPodLast(client, r, selector, calls) ==
    LET list == [op |-> "ListPods", namespace |-> r.Namespace, selector |-> selector]
        pods == ListPods(client, r.Namespace, selector)
    IN
    IF ~client.listOK
    THEN ResolveErr(r, "failed to list pods", <<r.Kind, r.Name>>, Append(calls, list))
    ELSE IF Len(pods) = 0
    THEN ResolveErr(r, "no pods found", <<r.Kind, r.Name, r.Namespace>>,
                    Append(calls, list))
    ELSE [target |-> [Name |-> pods[Len(pods)].name, Namespace |-> r.Namespace,
                      Kind |-> resourceTypePod, Port |-> r.Port],
          err |-> Nil, calls |-> Append(calls, list), arg |-> r]

\* variants of the tail: one that rewrites *res in place, one that lists again
\* when the first list is empty
pickPodInPlace(client, r, selector, calls) ==
    LET list == [op |-> "ListPods", namespace |-> r.Namespace, selector |-> selector]
        pods == ListPods(client, r.Namespace, selector)
    IN
    IF ~client.listOK
    THEN ResolveErr(r, "failed to list pods", <<r.Kind, r.Name>>, Append(calls, list))
    ELSE IF Len(pods) = 0
    THEN ResolveErr(r, "no pods found", <<r.Kind, r.Name, r.Namespace>>,
                    Append(calls, list))
    ELSE LET upd == [r EXCEPT !.Name = pods[1].name, !.Kind = resourceTypePod] IN
         [target |-> upd, err |-> Nil, calls |-> Append(calls, list), arg |-> upd]

pickPodRetry(client, r, selector, calls) ==
    LET list == [op |-> "ListPods", namespace |-> r.Namespace, selector |-> selector]
        pods == ListPods(client, r.Namespace, selector)
    IN
    IF ~client.listOK
    THEN ResolveErr(r, "failed to list pods", <<r.Kind, r.Name>>, Append(calls, list))
    ELSE IF Len(pods) = 0
    THEN ResolveErr(r, "no pods found", <<r.Kind, r.Name, r.Namespace>>,
                    Append(Append(calls, list), list))
    ELSE [target |-> [Name |-> pods[1].name, Namespace |-> r.Namespace,
                      Kind |-> resourceTypePod, Port |-> r.Port],
          err |-> Nil, calls |-> Append(calls, list), arg |-> r]

pickPod(client, r, selector, calls) ==
    LET list == [op |-> "ListPods", namespace |-> r.Namespace, selector |-> selector]
        pods == ListPods(client, r.Namespace, selector)
    IN
    IF ~client.listOK
    THEN ResolveErr(r, "failed to list pods", <<r.Kind, r.Name>>, Append(calls, list))
    ELSE IF Len(pods) = 0
    THEN ResolveErr(r, "no pods found", <<r.Kind, r.Name, r.Namespace>>,
                    Append(calls, list))
    ELSE [target |-> [Name |-> pods[1].name, Namespace |-> r.Namespace,
                      Kind |-> resourceTypePod, Port |-> r.Port],
          err |-> Nil, calls |-> Append(calls, list), arg |-> r]

\* the default case of the switch: "For pods, no need to look up selectors"
defaultCaseVerify(client, r) ==
    LET get == [op |-> "GetPod", namespace |-> r.Namespace, name |-> r.Name] IN
    [target |-> r, err |-> Nil, calls |-> <<get>>, arg |-> r]

defaultCase(client, r) == [target |-> r, err |-> Nil, calls |-> <<>>, arg |-> r]

findTargetForServiceWithClient(client, r) ==
    IF r.Kind \notin WorkloadKinds
    THEN defaultCase(client, r)
    ELSE
    LET get == [op |-> getterOf(r.Kind), namespace |-> r.Namespace, name |-> r.Name]
        found == GetObject(client, get.op, r.Namespace, r.Name)
    IN
    IF found = {}
    THEN ResolveErr(r, "failed to get " \o kindWord(r.Kind),
                    <<r.Name, r.Namespace>>, <<get>>)
    ELSE
    LET obj == CHOOSE w \in found : TRUE IN
    IF r.Kind # resourceTypeSvc /\ obj.badSelector
    THEN ResolveErr(r, "failed to convert " \o kindWord(r.Kind) \o " selector",
                    <<>>, <<get>>)
    ELSE pickPod(client, r, obj.selector, <<get>>)

(***************************************************************************)
(* Inputs of the resolver                                                  *)
(***************************************************************************)
\* pods the API lists for one query
MaxPods == 2

pod_1 == <<"p","o","d","-","1">>
pod_2 == <<"p","o","d","-","2">>
LabelSets == {{}, {"app=web"}, {"app=web", "tier=db"}}

PodUniverse ==
    {[namespace |-> ns_default, name |-> n, labels |-> l] :
        n \in {pod_1, pod_2}, l \in LabelSets}
    \cup {[namespace |-> ns_k8s, name |-> n, labels |-> {"app=web"}] :
            n \in {pod_1, pod_2}}

\* pod lists: no two pods of a namespace share a name
PodLists ==
    {ps \in SeqsUpTo(PodUniverse, MaxPods) :
        \A i, j \in 1..Len(ps) :
            (ps[i].namespace = ps[j].namespace /\ ps[i].name = ps[j].name) => i = j}

Workloads ==
    {[kind |-> k, namespace |-> ns_default, name |-> n_web,
      selector |-> sel, badSelector |-> FALSE] :
        k \in WorkloadKinds, sel \in LabelSets}
    \cup {[kind |-> k, namespace |-> ns_default, name |-> n_web,
           selector |-> {}, badSelector |-> TRUE] :
            k \in WorkloadKinds \ {resourceTypeSvc}}
    \cup {[kind |-> k, namespace |-> ns_k8s, name |-> n_web,
           selector |-> {"app=web"}, badSelector |-> FALSE] :
            k \in WorkloadKinds}

Transports ==
    {[getOK |-> TRUE, listOK |-> TRUE], [getOK |-> FALSE, listOK |-> TRUE],
     [getOK |-> TRUE, listOK |-> FALSE]}

MkClient(ws, ps, t) ==
    [workloads |-> ws, pods |-> ps, getOK |-> t.getOK, listOK |-> t.listOK]

Clients ==
    {MkClient(ws, ps, t) :
        ws \in {{}} \cup {{w} : w \in Workloads}, ps \in PodLists, t \in Transports}

ResolverTargets ==
    {[Name |-> n_web, Namespace |-> ns_default, Kind |-> k, Port |-> p] :
        k \in ResourceTypes, p \in {80, 8080}}

InitResolve ==
    /\ addr = Nil
    /\ rawURL = Nil
    /\ parsed = NoResult
    /\ cluster \in Clients
    /\ res \in ResolverTargets
    /\ resolved = NoResult
    /\ queries = <<>>
    /\ args = <<>>
    /\ Idle

\* one call of findTargetForServiceWithClient(client, res)
ResolveStep ==
    /\ resolved = NoResult
    /\ pc = "idle"
    /\ LET out == findTargetForServiceWithClient(cluster, res) IN
        /\ resolved' = [target |-> out.target, err |-> out.err]
        /\ queries' = queries \o out.calls
        /\ res' = out.arg
    /\ UNCHANGED <<inVars, parsed, chanVars, tunnelVars, procVars>>

NextResolve == ResolveStep

SpecResolve == InitResolve /\ [][NextResolve]_vars

ResolveDone == resolved # NoResult

\* client calls logged over repeated resolutions
MaxQueries == 4

\* a further call of findTargetForServiceWithClient(client, res) against the
\* same cluster
ResolveAgain ==
    /\ resolved # NoResult
    /\ pc = "idle"
    /\ Len(queries) < MaxQueries
    /\ LET out == findTargetForServiceWithClient(cluster, res) IN
        /\ resolved' = [target |-> out.target, err |-> out.err]
        /\ queries' = queries \o out.calls
        /\ res' = out.arg
    /\ UNCHANGED <<inVars, parsed, chanVars, tunnelVars, procVars>>

NextRepeat == ResolveStep \/ ResolveAgain

SpecRepeat == InitResolve /\ [][NextRepeat]_vars

(***************************************************************************)
(* One invocation: main (the argument-based entry point),                  *)
(* runWithSystemCurlNew / runWithCustomHTTPNew, and the goroutine that     *)
(* runs runPortForward.  The port-forwarder (client-go) is modelled by its *)
(* steps: dial, listen on localhost (IPv4 and IPv6), close the ready       *)
(* channel, then wait for the stop channel or the loss of the connection.  *)
(***************************************************************************)
\* requests the caller's one request may have relayed through the tunnel
MaxRelay == 1

Running == exitStatus = "running"
Families == {"v4", "v6"}
LocalPorts == {49152, 49153}

\* the process ends: the OS closes whatever the tunnel still listens on
ReleaseListeners ==
    /\ listeners' = [f \in Families |->
                        IF listeners[f] = "tunnel" THEN "none" ELSE listeners[f]]
    /\ releases' = IF \E f \in Families : listeners[f] = "tunnel"
                   THEN releases + 1 ELSE releases

Exit(status) ==
    /\ exitStatus' = status
    /\ ReleaseListeners

\* close(stopCh): closing a closed channel panics (the process ends with status 2)
CloseStop ==
    /\ cancels' = cancels + 1
    /\ IF stopCh = "closed"
       THEN /\ Exit("2")
            /\ UNCHANGED stopCh
       ELSE /\ stopCh' = "closed"
            /\ UNCHANGED <<exitStatus, listeners, releases>>

\* ---- main ----
\* res, err := parseKubernetesServiceURL(serviceURL); on error print and exit 1
main_Parse ==
    /\ Running /\ pc = "parse"
    /\ LET out == parseKubernetesServiceURL(rawURL) IN
        /\ parsed' = out
        /\ IF out.err # Nil
           THEN /\ printed' = printed \cup {"Error parsing service URL"}
                /\ exitStatus' = "1"
                /\ pc' = "exited"
           ELSE /\ pc' = "findFreePort"
                /\ UNCHANGED <<printed, exitStatus>>
    /\ UNCHANGED <<inVars, resolverVars, chanVars, tunnelVars, localPort, req>>

\* findFreePort: listen on localhost:0, read the port, close the listener
findFreePort_ok(p) ==
    /\ localPort' = p
    /\ pc' = "run"
    /\ UNCHANGED <<printed, exitStatus>>

\* (the variant reports the error and goes on with port 0)
findFreePort_failIgnored ==
    /\ printed' = printed \cup {"Error finding free port"}
    /\ pc' = "run"
    /\ UNCHANGED <<exitStatus, localPort>>

findFreePort_fail ==
    /\ printed' = printed \cup {"Error finding free port"}
    /\ exitStatus' = "1"
    /\ pc' = "exited"
    /\ UNCHANGED localPort

main_FindFreePort ==
    /\ Running /\ pc = "findFreePort"
    /\ \/ \E p \in LocalPorts : findFreePort_ok(p)
       \/ findFreePort_fail
    /\ UNCHANGED <<inVars, parsed, resolverVars, chanVars, tunnelVars, req>>

\* runWithSystemCurlNew / runWithCustomHTTPNew up to the wait: convert the
\* descriptor, make the channels, start the goroutine
main_Run ==
    /\ Running /\ pc = "run"
    /\ \E curlAvailable \in BOOLEAN :
          req' = [req EXCEPT !.client = IF curlAvailable THEN "curl" ELSE "http"]
    /\ res' = [Name |-> parsed.target.name, Namespace |-> parsed.target.namespace,
               Kind |-> parsed.target.kind, Port |-> parsed.target.port]
    /\ readyCh' = "open"
    /\ stopCh' = "open"
    /\ gpc' = "start"
    /\ pc' = "waitReady"
    /\ UNCHANGED <<inVars, parsed, resolved, queries, cancels, gerr, target, pfReq,
                   dials, listeners, connLost, relayed, releases, exitStatus,
                   printed, localPort>>

\* <-readyCh
readyReceivedAlways == TRUE

readyReceived == readyCh = "closed"

main_WaitReady ==
    /\ Running /\ pc = "waitReady"
    /\ readyReceived
    /\ pc' = "request"
    /\ UNCHANGED <<inVars, parsed, resolverVars, chanVars, tunnelVars, exitStatus,
                   printed, localPort, req>>

\* percent-encoding as net/url does it: the octets the inputs use
HexOf ==
    ("/" :> <<"2","F">>) @@ (" " :> <<"2","0">>) @@ ("!" :> <<"2","1">>) @@
    ("?" :> <<"3","F">>) @@ ("#" :> <<"2","3">>)
CharOf(h) == CHOOSE c \in DOMAIN HexOf : HexOf[c] = h

\* unescape: every %XX becomes the octet it stands for
RECURSIVE unescape(_)
unescape(s) ==
    IF s = <<>> THEN <<>>
    ELSE IF Head(s) = "%"
         THEN <<CharOf(<<s[2], s[3]>>)>> \o unescape(SubSeq(s, 4, Len(s)))
         ELSE <<Head(s)>> \o unescape(Tail(s))

\* shouldEscape: in a path everything but unreserved and reserved characters,
\* and "?"; in a fragment the reserved characters and "!" stay as they are
shouldEscape(c, mode) ==
    IF mode = "path" THEN c \in {" ", "!", "?", "#"} ELSE c \in {" ", "#"}

RECURSIVE escape(_, _)
escape(s, mode) ==
    IF s = <<>> THEN <<>>
    ELSE (IF shouldEscape(Head(s), mode) THEN <<"%">> \o HexOf[Head(s)] ELSE <<Head(s)>>)
         \o escape(Tail(s), mode)

\* url.Parse of scheme://host path ?query #fragment (setPath, setFragment)
urlParse(scheme, host, path, query, fragment) ==
    [ok |-> TRUE, Scheme |-> scheme, Host |-> host,
     Path |-> unescape(path),
     RawPath |-> IF escape(unescape(path), "path") = path THEN <<>> ELSE path,
     RawQuery |-> query,
     Fragment |-> unescape(fragment),
     RawFragment |-> IF escape(unescape(fragment), "fragment") = fragment
                     THEN <<>> ELSE fragment]

\* EscapedPath, EscapedFragment: the raw text if there is one that decodes to
\* the field, else the default encoding
EscapedPath(u) ==
    IF u.RawPath # <<>> /\ unescape(u.RawPath) = u.Path THEN u.RawPath
    ELSE escape(u.Path, "path")
EscapedFragment(u) ==
    IF u.RawFragment # <<>> /\ unescape(u.RawFragment) = u.Fragment THEN u.RawFragment
    ELSE escape(u.Fragment, "fragment")

\* URL.String(): the text of the URL, by component
urlString(u) ==
    [Scheme |-> u.Scheme, Host |-> u.Host, Path |-> EscapedPath(u),
     Query |-> u.RawQuery, Fragment |-> EscapedFragment(u)]

\* fmt.Sprintf("%d", n) for n >= 0
RECURSIVE Itoa(_)
Itoa(n) ==
    LET d == CHOOSE c \in Digits : DigitVal(c) = n % 10 IN
    IF n < 10 THEN <<d>> ELSE Itoa(n \div 10) \o <<d>>

localhost == <<"l","o","c","a","l","h","o","s","t">>

\* reconstructURL(serviceURL, localPort): a new URL from five fields of the
\* parsed one (Scheme, Host, Path, RawQuery, Fragment), printed
reconstructURL(u, port) ==
    urlString([ok |-> TRUE, Scheme |-> u.Scheme,
               Host |-> localhost \o <<":">> \o Itoa(port),
               Path |-> u.Path, RawPath |-> <<>>, RawQuery |-> u.RawQuery,
               Fragment |-> u.Fragment, RawFragment |-> <<>>])

\* cmd.Run() / makeHTTPRequest start: the request connects to localhost:localPort,
\* to a listener of either address family, or is refused when there is none
main_IssueRequest ==
    /\ Running /\ pc = "request"
    /\ \/ \E f \in Families :
            /\ listeners[f] # "none"
            /\ req' = [req EXCEPT !.state = "inFlight", !.peer = listeners[f],
                                  !.url = reconstructURL(rawURL, localPort)]
       \/ /\ \A f \in Families : listeners[f] = "none"
          /\ req' = [req EXCEPT !.state = "inFlight", !.peer = "refused",
                                !.url = reconstructURL(rawURL, localPort)]
    /\ pc' = "inRequest"
    /\ UNCHANGED <<inVars, parsed, resolverVars, chanVars, tunnelVars, exitStatus,
                   printed, localPort>>

\* cmd.Run() / makeHTTPRequest returns: nil only if a response came back
main_RequestDone ==
    /\ Running /\ pc = "inRequest"
    /\ \/ /\ \/ req.peer = "tunnel" /\ relayed > 0
             \/ req.peer = "other"
          /\ req' = [req EXCEPT !.state = "ok"]
          /\ pc' = "cancel"
       \/ /\ req' = [req EXCEPT !.state = "failed"]
          /\ pc' = "reqFailed"
    /\ UNCHANGED <<inVars, parsed, resolverVars, chanVars, tunnelVars, exitStatus,
                   printed, localPort>>

\* err != nil: print, close(stopCh), then os.Exit(1)
\* (the variant leaves the channel open on this path)
main_CancelOnErrorSkip ==
    /\ Running /\ pc = "reqFailed"
    /\ printed' = printed \cup {"Error executing request"}
    /\ pc' = "exit1"
    /\ UNCHANGED <<inVars, parsed, resolverVars, chanVars, tunnelVars, exitStatus,
                   localPort, req>>

main_CancelOnError ==
    /\ Running /\ pc = "reqFailed"
    /\ printed' = printed \cup {"Error executing request"}
    /\ CloseStop
    /\ pc' = "exit1"
    /\ UNCHANGED <<inVars, parsed, resolverVars, readyCh, gpc, gerr, target, pfReq,
                   dials, connLost, relayed, localPort, req>>

main_Exit1 ==
    /\ Running /\ pc = "exit1"
    /\ Exit("1")
    /\ pc' = "exited"
    /\ UNCHANGED <<inVars, parsed, resolverVars, chanVars, gpc, gerr, target, pfReq,
                   dials, connLost, relayed, printed, localPort, req>>

\* close(stopCh) on the success path
main_Cancel ==
    /\ Running /\ pc = "cancel"
    /\ CloseStop
    /\ pc' = "return"
    /\ UNCHANGED <<inVars, parsed, resolverVars, readyCh, gpc, gerr, target, pfReq,
                   dials, connLost, relayed, printed, localPort, req>>

\* main returns: the process ends with status 0
main_Return ==
    /\ Running /\ pc = "return"
    /\ Exit("0")
    /\ pc' = "exited"
    /\ UNCHANGED <<inVars, parsed, resolverVars, chanVars, gpc, gerr, target, pfReq,
                   dials, connLost, relayed, printed, localPort, req>>

\* ---- runPortForward ----
PFReturn(err) ==
    /\ gerr' = err
    /\ gpc' = "returned"

\* clientset, err := getKubernetesClient()
pf_GetClient ==
    /\ Running /\ gpc = "start"
    /\ \/ gpc' = "resolve" /\ UNCHANGED gerr
       \/ PFReturn([msg |-> "failed to get Kubernetes client", args |-> <<>>])
    /\ UNCHANGED <<inVars, parsed, resolverVars, chanVars, target, pfReq, dials,
                   listeners, connLost, relayed, releases, procVars>>

\* the kinds runPortForward hands to findTargetForService before forwarding
resolvedKindsAll == WorkloadKinds

resolvedKinds == {resourceTypeSvc}

\* target := res; if res.Kind is resolved, target = findTargetForService(...)
pf_Resolve ==
    /\ Running /\ gpc = "resolve"
    /\ IF res.Kind \in resolvedKinds
       THEN LET out == findTargetForServiceWithClient(cluster, res) IN
            /\ resolved' = [target |-> out.target, err |-> out.err]
            /\ queries' = queries \o out.calls
            /\ res' = out.arg
            /\ IF out.err # Nil
               THEN PFReturn(out.err) /\ UNCHANGED target
               ELSE target' = out.target /\ gpc' = "config" /\ UNCHANGED gerr
       ELSE /\ target' = res
            /\ gpc' = "config"
            /\ UNCHANGED <<gerr, resolverVars>>
    /\ UNCHANGED <<inVars, parsed, chanVars, pfReq, dials, listeners, connLost,
                   relayed, releases, procVars>>

\* portforward.New parses "local:remote": the remote port must be in 1..65535
ValidRemotePort(p) == p >= 1 /\ p <= 65535

\* ports := []string{fmt.Sprintf("%d:%d", localPort, target.Port)}, which
\* portforward.New reads as local:remote (the variant writes remote:local)
forwardPortsSwapped(local, remote) == [local |-> remote, remote |-> local]

forwardPorts(local, remote) == [local |-> local, remote |-> remote]

\* REST config, SPDY round tripper, REST client, request URL, portforward.New
pf_Config ==
    /\ Running /\ gpc = "config"
    /\ \/ PFReturn([msg |-> "failed to get REST config", args |-> <<>>])
          /\ UNCHANGED pfReq
       \/ /\ pfReq' = [resource |-> target.Kind, namespace |-> target.Namespace,
                       name |-> target.Name,
                       local |-> forwardPorts(localPort, target.Port).local,
                       remote |-> forwardPorts(localPort, target.Port).remote]
          /\ IF ValidRemotePort(forwardPorts(localPort, target.Port).remote)
             THEN gpc' = "dial" /\ UNCHANGED gerr
             ELSE PFReturn([msg |-> "failed to create port-forwarder", args |-> <<>>])
    /\ UNCHANGED <<inVars, parsed, resolverVars, chanVars, target, dials, listeners,
                   connLost, relayed, releases, procVars>>

\* fw.ForwardPorts(): dial the pod's portforward subresource; only a pod that
\* exists has one
pf_Dial ==
    /\ Running /\ gpc = "dial"
    /\ dials' = dials + 1
    /\ \/ /\ pfReq.resource = resourceTypePod
          /\ \E i \in 1..Len(cluster.pods) :
                /\ cluster.pods[i].namespace = pfReq.namespace
                /\ cluster.pods[i].name = pfReq.name
          /\ gpc' = "listen"
          /\ UNCHANGED gerr
       \/ PFReturn([msg |-> "error upgrading connection", args |-> <<>>])
    /\ UNCHANGED <<inVars, parsed, resolverVars, chanVars, target, pfReq, listeners,
                   connLost, relayed, releases, procVars>>

\* listen on 127.0.0.1 and ::1; it is an error only if neither can be bound
\* (the variant signals readiness as soon as it listens, and again afterwards)
pf_ListenSignals ==
    /\ Running /\ gpc = "listen"
    /\ listeners' = [f \in Families |->
                        IF listeners[f] = "none" THEN "tunnel" ELSE listeners[f]]
    /\ IF \E f \in Families : listeners[f] = "none"
       THEN gpc' = "signalReady" /\ readyCh' = "closed" /\ UNCHANGED gerr
       ELSE /\ PFReturn([msg |-> "unable to listen on any of the requested ports",
                         args |-> <<>>])
            /\ UNCHANGED readyCh
    /\ UNCHANGED <<inVars, parsed, resolverVars, stopCh, cancels, target, pfReq, dials,
                   connLost, relayed, releases, procVars>>

pf_Listen ==
    /\ Running /\ gpc = "listen"
    /\ listeners' = [f \in Families |->
                        IF listeners[f] = "none" THEN "tunnel" ELSE listeners[f]]
    /\ IF \E f \in Families : listeners[f] = "none"
       THEN gpc' = "signalReady" /\ UNCHANGED gerr
       ELSE PFReturn([msg |-> "unable to listen on any of the requested ports",
                      args |-> <<>>])
    /\ UNCHANGED <<inVars, parsed, resolverVars, chanVars, target, pfReq, dials,
                   connLost, relayed, releases, procVars>>

\* close(pf.Ready)
pf_Ready ==
    /\ Running /\ gpc = "signalReady"
    /\ readyCh' = "closed"
    /\ gpc' = "forwarding"
    /\ UNCHANGED <<inVars, parsed, resolverVars, stopCh, cancels, gerr, target, pfReq,
                   dials, listeners, connLost, relayed, releases, procVars>>

\* select: case <-pf.stopChan: return nil (the deferred Close releases the port)
pf_Stopped ==
    /\ Running /\ gpc = "forwarding"
    /\ stopCh = "closed"
    /\ PFReturn(Nil)
    /\ ReleaseListeners
    /\ UNCHANGED <<inVars, parsed, resolverVars, chanVars, target, pfReq, dials,
                   connLost, relayed, procVars>>

\* select: case <-pf.streamConn.CloseChan(): return ErrLostConnectionToPod
\* (the variant dials again instead of returning)
pf_LostConnectionReconnect ==
    /\ Running /\ gpc = "forwarding"
    /\ connLost
    /\ dials < 2
    /\ gpc' = "dial"
    /\ connLost' = FALSE
    /\ ReleaseListeners
    /\ UNCHANGED <<inVars, parsed, resolverVars, chanVars, gerr, target, pfReq, dials,
                   relayed, procVars>>

pf_LostConnection ==
    /\ Running /\ gpc = "forwarding"
    /\ connLost
    /\ PFReturn([msg |-> "lost connection to pod", args |-> <<>>])
    /\ ReleaseListeners
    /\ UNCHANGED <<inVars, parsed, resolverVars, chanVars, target, pfReq, dials,
                   connLost, relayed, procVars>>

\* ---- the goroutine around runPortForward ----
\* if err != nil { fmt.Printf("Error in port-forward: ...") ...
go_Return ==
    /\ Running /\ gpc = "returned"
    /\ IF gerr # Nil
       THEN /\ printed' = printed \cup {"Error in port-forward"}
            /\ gpc' = "exit1"
       ELSE /\ gpc' = "done"
            /\ UNCHANGED printed
    /\ UNCHANGED <<inVars, parsed, resolverVars, chanVars, gerr, target, pfReq, dials,
                   listeners, connLost, relayed, releases, pc, exitStatus,
                   localPort, req>>

\* ... os.Exit(1) }
go_Exit1Swallowed ==
    /\ Running /\ gpc = "exit1"
    /\ gpc' = "done"
    /\ UNCHANGED <<inVars, parsed, resolverVars, chanVars, gerr, target, pfReq, dials,
                   listeners, connLost, relayed, releases, procVars>>

go_Exit1 ==
    /\ Running /\ gpc = "exit1"
    /\ Exit("1")
    /\ gpc' = "done"
    /\ UNCHANGED <<inVars, parsed, resolverVars, chanVars, gerr, target, pfReq, dials,
                   connLost, relayed, pc, printed, localPort, req>>

\* ---- the environment ----
\* the connection to the pod breaks (before the caller has cancelled)
tunnel_ConnLost ==
    /\ Running /\ gpc \in {"listen", "signalReady", "forwarding"}
    /\ stopCh = "open"
    /\ ~connLost
    /\ connLost' = TRUE
    /\ UNCHANGED <<inVars, parsed, resolverVars, chanVars, gpc, gerr, target, pfReq,
                   dials, listeners, relayed, releases, procVars>>

\* the forwarder relays a response from the pod to the caller's connection
tunnel_Relay ==
    /\ Running /\ gpc \in {"signalReady", "forwarding"}
    /\ ~connLost
    /\ req.state = "inFlight" /\ req.peer = "tunnel"
    /\ relayed < MaxRelay
    /\ relayed' = relayed + 1
    /\ UNCHANGED <<inVars, parsed, resolverVars, chanVars, gpc, gerr, target, pfReq,
                   dials, listeners, connLost, releases, procVars>>

\* another process binds the port findFreePort released, before the tunnel does
env_OtherBinds ==
    /\ Running /\ localPort # 0
    /\ gpc \in {"none", "start", "resolve", "config", "dial", "listen"}
    /\ \E f \in Families :
          /\ listeners[f] = "none"
          /\ listeners' = [listeners EXCEPT ![f] = "other"]
    /\ UNCHANGED <<inVars, parsed, resolverVars, chanVars, gpc, gerr, target, pfReq,
                   dials, connLost, relayed, releases, procVars>>

(***************************************************************************)
(* Inputs of an invocation                                                 *)
(***************************************************************************)
RunAddrs ==
    {[labels |-> <<n_web, ns_default, t_svc>>, port |-> <<":">> \o p_8080],
     [labels |-> <<n_web, ns_default, t_pod>>, port |-> <<":">> \o p_8080],
     [labels |-> <<n_web, ns_default, t_deploy, l_cluster, l_local>>,
      port |-> <<":">> \o p_8080],
     [labels |-> <<n_web, ns_default, t_sts>>, port |-> <<>>],
     [labels |-> <<n_web, ns_default, t_job>>, port |-> <<":">> \o p_80],
     [labels |-> <<n_web, ns_default, t_pod>>, port |-> <<":">> \o p_0],
     [labels |-> <<pod_1, ns_k8s, t_pod>>, port |-> <<":">> \o p_80]}

RunPods ==
    {<<>>,
     <<[namespace |-> ns_default, name |-> n_web, labels |-> {"app=web"}]>>,
     <<[namespace |-> ns_default, name |-> pod_1, labels |-> {"app=web"}],
       [namespace |-> ns_default, name |-> pod_2, labels |-> {"app=web"}]>>}

RunWorkloads ==
    {{}} \cup
    {{[kind |-> k, namespace |-> ns_default, name |-> n_web,
       selector |-> {"app=web"}, badSelector |-> FALSE]} :
        k \in {resourceTypeSvc, resourceTypeDeployment, resourceTypeStatefulSet}}

RunClients == {MkClient(ws, ps, t) : ws \in RunWorkloads, ps \in RunPods, t \in Transports}

Init ==
    /\ addr \in RunAddrs
    /\ rawURL \in {URLOf(s, addr, p_api) : s \in {"http", "https"}}
    /\ cluster \in RunClients
    /\ parsed = NoResult
    /\ res = Nil
    /\ resolved = NoResult
    /\ queries = <<>>
    /\ args = <<>>
    /\ Quiet("parse")

Next ==
    \/ main_Parse \/ main_FindFreePort \/ main_Run \/ main_WaitReady
    \/ main_IssueRequest \/ main_RequestDone \/ main_CancelOnError \/ main_Exit1
    \/ main_Cancel \/ main_Return
    \/ pf_GetClient \/ pf_Resolve \/ pf_Config \/ pf_Dial \/ pf_Listen \/ pf_Ready
    \/ pf_Stopped \/ pf_LostConnection
    \/ go_Return \/ go_Exit1
    \/ tunnel_ConnLost \/ tunnel_Relay \/ env_OtherBinds

Spec == Init /\ [][Next]_vars

\* the Go scheduler runs a runnable goroutine: the closure around runPortForward
\* handles the returned error
FairSpec == Spec /\ WF_vars(go_Return) /\ WF_vars(go_Exit1)

(***************************************************************************)
(* reconstructURL applied to URLs as they are written                      *)
(***************************************************************************)
PathTexts ==
    {<<>>, p_api, <<"/","a","/","b">>, <<"/","a","%","2","F","b">>,
     <<"/","a","%","2","0","b">>, <<"/","a","!","b">>}
QueryTexts == {<<>>, <<"x","=","1">>, <<"q","=","a","%","2","F","b">>}
FragmentTexts == {<<>>, <<"t","o","p">>, <<"a","!","b">>, <<"a","%","2","0","b">>}

URLAddrs ==
    {[labels |-> <<n_web, ns_default, t_svc>>, port |-> p, path |-> pt,
      query |-> q, fragment |-> f] :
        p \in {<<>>, <<":">> \o p_8080}, pt \in PathTexts, q \in QueryTexts,
        f \in FragmentTexts}

InitURL ==
    /\ addr \in URLAddrs
    /\ rawURL \in {urlParse(sch, Join(addr.labels, ".") \o addr.port, addr.path,
                            addr.query, addr.fragment) : sch \in {"http", "https"}}
    /\ cluster = Nil
    /\ parsed = NoResult
    /\ res = Nil
    /\ resolved = NoResult
    /\ queries = <<>>
    /\ args = <<>>
    /\ Idle

\* localURL := reconstructURL(serviceURL, localPort)
ReconstructStep ==
    /\ pc = "idle"
    /\ req.url = Nil
    /\ \E p \in LocalPorts :
          /\ localPort' = p
          /\ req' = [req EXCEPT !.url = reconstructURL(rawURL, p)]
    /\ UNCHANGED <<inVars, parsed, resolverVars, chanVars, tunnelVars, pc, exitStatus,
                   printed>>

NextURL == ReconstructStep

SpecURL == InitURL /\ [][NextURL]_vars

(***************************************************************************)
(* main.go: the flag-based entry point builds the local URL by textual     *)
(* replacement in the URL it was given.  It is built with the parser that  *)
(* returns a *resource (svc and pod only).                                 *)
(***************************************************************************)
SchemeText(sch) ==
    CASE sch = "http" -> <<"h","t","t","p">>
      [] sch = "https" -> <<"h","t","t","p","s">>
      [] sch = "ftp" -> <<"f","t","p">>

\* the URL as the command line gives it
URLText(u) == SchemeText(u.Scheme) \o <<":","/","/">> \o u.Host \o u.Path

\* strings.Index(s, old): the position of the first occurrence, 0 when none
IndexOf(s, old) ==
    LET at == {i \in 1..(Len(s) - Len(old) + 1) : SubSeq(s, i, i + Len(old) - 1) = old}
    IN IF at = {} THEN 0 ELSE CHOOSE i \in at : \A j \in at : i <= j

\* strings.Replace(s, old, new, 1)
Replace1(s, old, new) ==
    LET i == IndexOf(s, old) IN
    IF i = 0 THEN s
    ELSE SubSeq(s, 1, i - 1) \o new \o SubSeq(s, i + Len(old), Len(s))

\* the kind of a *resource: svc and pod are known, anything else leaves it empty
kindOfResource(tok) ==
    IF tok = t_pod THEN resourceTypePod
    ELSE IF tok = t_svc THEN resourceTypeSvc
    ELSE ""

\* parseKubernetesServiceURL returning *resource
parseResource(u) ==
    IF ~u.ok THEN ParseErr("invalid URL", <<>>)
    ELSE
    LET parts == hostParts(u)
        port == portOf(u)
    IN
    IF Len(parts) < 3 THEN ParseErr("invalid Kubernetes service URL format", RawText(u))
    ELSE IF port.err THEN ParseErr("invalid port in URL", URLPort(u))
    ELSE IF ~resourceNameRegex(parts[1]) THEN ParseErr("invalid service name", parts[1])
    ELSE IF ~resourceNameRegex(parts[2]) THEN ParseErr("invalid namespace", parts[2])
    ELSE [target |-> [namespace |-> parts[2], name |-> parts[1],
                      kind |-> kindOfResource(parts[3]), port |-> port.val],
          err |-> Nil]

\* main.go:79-83: the five replacements, each the first occurrence only; the
\* third starts again from serviceURL
localURLOf(serviceURL, r, port) ==
    LET base == r.name \o <<".">> \o r.namespace
        svc == base \o <<".">> \o t_svc
        pod == base \o <<".">> \o t_pod
        sfx == <<".">> \o l_cluster \o <<".">> \o l_local
        u1 == Replace1(serviceURL, svc, localhost)
        u2 == Replace1(u1, svc \o sfx, localhost)
        u3 == Replace1(serviceURL, pod, localhost)
        u4 == Replace1(u3, pod \o sfx, localhost)
    IN Replace1(u4, <<":">> \o Itoa(r.port), <<":">> \o Itoa(port))

MainGoAddrs ==
    {[labels |-> <<n, ns, k>> \o sfx, port |-> p] :
        n \in {n_web, n_myapp, n_a}, ns \in {ns_default, ns_k8s}, k \in {t_svc, t_pod},
        sfx \in {<<>>, <<l_cluster, l_local>>},
        p \in {<<>>, <<":">> \o p_80, <<":">> \o p_8080}}

InitMainGo ==
    /\ addr \in MainGoAddrs
    /\ rawURL \in {URLOf(sch, addr, p_api) : sch \in {"http", "https"}}
    /\ cluster = Nil
    /\ parsed = NoResult
    /\ res = Nil
    /\ resolved = NoResult
    /\ queries = <<>>
    /\ args = <<>>
    /\ Idle

\* res, err := parseKubernetesServiceURL(serviceURL)
MainGoParse ==
    /\ pc = "idle"
    /\ parsed = NoResult
    /\ parsed' = parseResource(rawURL)
    /\ UNCHANGED <<inVars, resolverVars, chanVars, tunnelVars, procVars>>

\* the local URL, for the port findFreePort returned
MainGoLocalURL ==
    /\ pc = "idle"
    /\ parsed # NoResult /\ parsed.err = Nil
    /\ req.url = Nil
    /\ \E p \in LocalPorts :
          /\ localPort' = p
          /\ req' = [req EXCEPT !.url =
                        [text |-> localURLOf(URLText(rawURL), parsed.target, p)]]
    /\ UNCHANGED <<inVars, parsed, resolverVars, chanVars, tunnelVars, pc, exitStatus,
                   printed>>

NextMainGo == MainGoParse \/ MainGoLocalURL

SpecMainGo == InitMainGo /\ [][NextMainGo]_vars

(***************************************************************************)
(* The argument-based main: find the URL among the arguments, hand the     *)
(* others to curl through sh -c                                            *)
(***************************************************************************)
\* arguments on a command line
MaxArgs == 3

a_v == <<"-","v">>
a_X == <<"-","X">>
a_POST == <<"P","O","S","T">>
a_quote == <<"i","t","'","s">>
a_space == <<"a"," ","b">>
a_curl == <<"c","u","r","l">>
u_service == MkURL("http", Join(<<n_web, ns_default, t_svc>>, ".") \o <<":">> \o p_8080, p_api)
u_other == MkURL("https", Join(<<<<"r","e","f">>>>, "."), <<>>)
ArgURLs == {u_service, u_other}
ArgTokens == {a_v, a_X, a_POST, a_quote, a_space, <<>>} \cup {URLText(u) : u \in ArgURLs}

HasPrefix(s, pre) == Len(s) >= Len(pre) /\ SubSeq(s, 1, Len(pre)) = pre

\* isURL
isURL(s) ==
    \/ HasPrefix(s, <<"h","t","t","p",":","/","/">>)
    \/ HasPrefix(s, <<"h","t","t","p","s",":","/","/">>)

\* the loop from the end of the arguments: the index of the last URL, 0 if none
urlIndexOf(as) ==
    LET at == {i \in 1..Len(as) : isURL(as[i])}
    IN IF at = {} THEN 0 ELSE CHOOSE i \in at : \A j \in at : i >= j

\* strings.ReplaceAll(s, "'", `'"'"'`)
RECURSIVE escapeQuotes(_)
escapeQuotes(s) ==
    IF s = <<>> THEN <<>>
    ELSE (IF Head(s) = "'" THEN <<"'", "\"", "'", "\"", "'">> ELSE <<Head(s)>>)
         \o escapeQuotes(Tail(s))

\* shellEscape
shellEscape(s) ==
    IF s = <<>> THEN <<"'", "'">> ELSE <<"'">> \o escapeQuotes(s) \o <<"'">>

\* buildCurlCommandFromArgs
buildCurlCommandFromArgs(originalArgs, newURL) ==
    Join(<<a_curl>> \o [i \in 1..Len(originalArgs) |-> shellEscape(originalArgs[i])]
            \o <<shellEscape(newURL)>>, " ")

\* sh -c reads one character c of the command in quoting mode m: a character
\* of a word, a separator between words (an unquoted space), or a quote,
\* which is dropped but makes a word of what it encloses, even of nothing.
\* Single and double quotes group, and a quote of one kind is an ordinary
\* character inside the other.
shChar(m, c) ==
    IF m = "plain" THEN
        IF c = " " THEN [mode |-> "plain", items |-> <<[k |-> "sep", c |-> c]>>]
        ELSE IF c = "'" THEN [mode |-> "single", items |-> <<[k |-> "quote", c |-> c]>>]
        ELSE IF c = "\"" THEN [mode |-> "double", items |-> <<[k |-> "quote", c |-> c]>>]
        ELSE [mode |-> "plain", items |-> <<[k |-> "ch", c |-> c]>>]
    ELSE IF (m = "single" /\ c = "'") \/ (m = "double" /\ c = "\"")
         THEN [mode |-> "plain", items |-> <<[k |-> "quote", c |-> c]>>]
    ELSE [mode |-> m, items |-> <<[k |-> "ch", c |-> c]>>]

shModes == {"plain", "single", "double"}

\* the characters of s read in order, from each quoting mode
RECURSIVE shScan(_)
shScan(s) ==
    IF s = <<>> THEN [m \in shModes |-> [mode |-> m, items |-> <<>>]]
    ELSE IF Len(s) = 1 THEN [m \in shModes |-> shChar(m, s[1])]
    ELSE LET h == Len(s) \div 2
             l == shScan(SubSeq(s, 1, h))
             r == shScan(SubSeq(s, h + 1, Len(s)))
         IN [m \in shModes |->
                [mode |-> r[l[m].mode].mode,
                 items |-> l[m].items \o r[l[m].mode].items]]

\* sh -c: the words of the command
shWords(s) ==
    LET items == shScan(s)["plain"].items
        n == Len(items)
        B == {0, n + 1} \cup {i \in 1..n : items[i].k = "sep"}
        endOf(b) == CHOOSE e \in B : e > b /\ \A x \in B : x > b => e <= x
        starts == {b \in B \ {n + 1} : endOf(b) > b + 1}
        isCh(it) == it.k = "ch"
        word(b) == LET w == SelectSeq(SubSeq(items, b + 1, endOf(b) - 1), isCh)
                   IN [i \in 1..Len(w) |-> w[i].c]
    IN [i \in 1..Cardinality(starts) |->
           word(CHOOSE b \in starts : Cardinality({x \in starts : x < b}) = i - 1)]

\* the text of a printed URL
PrintedText(p) ==
    SchemeText(p.Scheme) \o <<":","/","/">> \o p.Host \o p.Path
        \o (IF p.Query = <<>> THEN <<>> ELSE <<"?">> \o p.Query)
        \o (IF p.Fragment = <<>> THEN <<>> ELSE <<"#">> \o p.Fragment)

InitArgs ==
    /\ args \in SeqsUpTo(ArgTokens, MaxArgs)
    /\ addr = Nil
    /\ rawURL = Nil
    /\ cluster = Nil
    /\ parsed = NoResult
    /\ res = Nil
    /\ resolved = NoResult
    /\ queries = <<>>
    /\ Idle

\* main up to the curl command of runWithSystemCurlNew, for the port
\* findFreePort returned; the tunnel is taken to come up
ArgsRun ==
    /\ pc = "idle"
    /\ exitStatus = "running"
    /\ req.argv = Nil
    /\ LET urlIndex == urlIndexOf(args) IN
       IF urlIndex = 0
       THEN /\ printed' = printed \cup {"Error: No Kubernetes service URL found in arguments"}
            /\ exitStatus' = "1"
            /\ UNCHANGED <<parsed, localPort, req>>
       ELSE LET u == CHOOSE x \in ArgURLs : URLText(x) = args[urlIndex]
                out == parseKubernetesServiceURL(u)
            IN
            /\ parsed' = out
            /\ IF out.err # Nil
               THEN /\ printed' = printed \cup {"Error parsing service URL"}
                    /\ exitStatus' = "1"
                    /\ UNCHANGED <<localPort, req>>
               ELSE \E p \in LocalPorts :
                    /\ localPort' = p
                    /\ req' = [req EXCEPT
                          !.client = "curl",
                          !.url = reconstructURL(u, p),
                          !.argv = shWords(
                              buildCurlCommandFromArgs(
                                  SubSeq(args, 1, urlIndex - 1),
                                  PrintedText(reconstructURL(u, p))))]
                    /\ UNCHANGED <<printed, exitStatus>>
    /\ UNCHANGED <<inVars, resolverVars, chanVars, tunnelVars, pc>>

NextArgs == ArgsRun

SpecArgs == InitArgs /\ [][NextArgs]_vars

(***************************************************************************)
(* The tunnel session on its own: the goroutine of runWithSystemCurlNew    *)
(* with the stop channel in the hands of a caller that may cancel at any   *)
(* time and more than once.  The cancel handle the code gives the caller   *)
(* is close(stopCh).                                                       *)
(***************************************************************************)
\* cancellations a caller of the session makes
MaxCancels == 2

SessionTargets ==
    {[Name |-> n_web, Namespace |-> ns_default, Kind |-> k, Port |-> 8080] :
        k \in {resourceTypePod, resourceTypeSvc}}

InitCancel ==
    /\ addr = Nil
    /\ rawURL = Nil
    /\ cluster \in RunClients
    /\ parsed = NoResult
    /\ res \in SessionTargets
    /\ resolved = NoResult
    /\ queries = <<>>
    /\ args = <<>>
    /\ pc = "caller"
    /\ gpc = "start"
    /\ gerr = Nil
    /\ target = Nil
    /\ pfReq = Nil
    /\ dials = 0
    /\ readyCh = "open"
    /\ stopCh = "open"
    /\ exitStatus = "running"
    /\ printed = {}
    /\ localPort \in LocalPorts
    /\ listeners = NoListeners
    /\ connLost = FALSE
    /\ req = NoRequest
    /\ relayed = 0
    /\ cancels = 0
    /\ releases = 0

\* close(stopCh)
caller_Cancel ==
    /\ Running /\ pc = "caller"
    /\ cancels < MaxCancels
    /\ CloseStop
    /\ UNCHANGED <<inVars, parsed, resolverVars, readyCh, gpc, gerr, target, pfReq,
                   dials, connLost, relayed, pc, printed, localPort, req>>

NextCancel ==
    \/ caller_Cancel
    \/ pf_GetClient \/ pf_Resolve \/ pf_Config \/ pf_Dial \/ pf_Listen \/ pf_Ready
    \/ pf_Stopped \/ pf_LostConnection
    \/ go_Return \/ go_Exit1
    \/ tunnel_ConnLost

SpecCancel == InitCancel /\ [][NextCancel]_vars

(***************************************************************************)
(* Properties of the parser                                                *)
(***************************************************************************)
\* what the address grammar says, stated without the parser's operators
ValidNames == {n_web, n_myapp, n_a}
ValidNamespaces == {ns_default, ns_k8s}
ExpectedKind ==
    (t_svc :> resourceTypeSvc) @@ (t_pod :> resourceTypePod) @@
    (t_deploy :> resourceTypeDeployment) @@ (t_deployment :> resourceTypeDeployment) @@
    (t_sts :> resourceTypeStatefulSet) @@ (t_statefulset :> resourceTypeStatefulSet) @@
    (t_ds :> resourceTypeDaemonSet) @@ (t_daemonset :> resourceTypeDaemonSet) @@
    (t_rs :> resourceTypeReplicaSet) @@ (t_replicaset :> resourceTypeReplicaSet)
ExplicitPortValue ==
    ((<<":">> \o p_80) :> 80) @@ ((<<":">> \o p_8080) :> 8080) @@
    ((<<":">> \o p_0080) :> 80) @@ ((<<":">> \o p_0) :> 0) @@
    ((<<":">> \o p_65536) :> 65536)
\* explicit ports strconv.Atoi rejects (larger than the largest int)
OverflowPorts == {<<":">> \o p_huge, <<":">> \o p_maxint1}

WellFormedAddr ==
    /\ rawURL.ok
    /\ Len(addr.labels) >= 3
    /\ addr.labels[1] \in ValidNames
    /\ addr.labels[2] \in ValidNamespaces
    /\ addr.labels[3] \in DOMAIN ExpectedKind
    /\ addr.port \in DOMAIN ExplicitPortValue

\* C2: for every well-formed address name.namespace.kind[.suffix...]:port/path the
\* parser returns the descriptor (name = first label, namespace = second label,
\* kind = mapping of the third label, port = the explicit port) and no error,
\* whatever labels follow the third.
C2_ParseWellFormed ==
    (ParseDone /\ WellFormedAddr) =>
        parsed = [target |-> [namespace |-> addr.labels[2],
                              name |-> addr.labels[1],
                              kind |-> ExpectedKind[addr.labels[3]],
                              port |-> ExplicitPortValue[addr.port]],
                  err |-> Nil]

C2_Witness ==
    /\ ParseDone
    /\ WellFormedAddr
    /\ addr.labels = <<n_myapp, ns_default, t_sts, l_cluster, l_local>>
    /\ addr.port = <<":">> \o p_8080
    /\ parsed.target # Nil
    /\ parsed.target.kind = resourceTypeStatefulSet

HasThirdLabel == rawURL.ok /\ Len(addr.labels) >= 3

KindOutcome(portOK) ==
    (ParseDone /\ HasThirdLabel /\ portOK) =>
        /\ addr.labels[3] \notin DOMAIN ExpectedKind =>
              parsed = ParseErr("unsupported resource type", addr.labels[3])
        /\ parsed.target # Nil =>
              /\ addr.labels[3] \in DOMAIN ExpectedKind
              /\ parsed.target.kind = ExpectedKind[addr.labels[3]]

\* C3 as stated: the third host label is mapped by exact, case-sensitive match
\* over the fixed vocabulary, and any other third label yields the
\* unsupported-kind error naming that label and no descriptor.
C3_Original == KindOutcome(TRUE)

\* C3 as amended: the same, for addresses whose explicit port (if any) converts
\* to an int; the port is converted before the kind label is looked at.
C3_KindMapping == KindOutcome(addr.port \notin OverflowPorts)

C3_Witness ==
    /\ ParseDone
    /\ HasThirdLabel
    /\ addr.labels[3] = t_Svc
    /\ addr.port = <<":">> \o p_80
    /\ parsed = ParseErr("unsupported resource type", t_Svc)

(***************************************************************************)
(* Properties of the resolver                                              *)
(***************************************************************************)
\* the object the descriptor names, and the pods that back it
NamedObjects ==
    {w \in cluster.workloads :
        w.kind = res.Kind /\ w.namespace = res.Namespace /\ w.name = res.Name
        /\ (w.kind = resourceTypeSvc \/ ~w.badSelector)}
Backing(w) ==
    {i \in 1..Len(cluster.pods) :
        /\ cluster.pods[i].namespace = res.Namespace
        /\ \A l \in w.selector : l \in cluster.pods[i].labels}
QueriesAnswered == cluster.getOK /\ cluster.listOK
ListCalls == {i \in 1..Len(queries) : queries[i].op = "ListPods"}

\* C4: when the selector of a Service, Deployment, StatefulSet, DaemonSet or
\* ReplicaSet descriptor matches at least one pod, the resolver returns no error
\* and a descriptor of kind Pod named after a matching pod with the input's
\* namespace and port; a successful resolution of such a descriptor never has a
\* non-Pod kind; and the call leaves the fields of the input descriptor as
\* they were.
C4_ResolveToPod ==
    /\ [](\A w \in (IF ResolveDone /\ res.Kind \in WorkloadKinds /\ QueriesAnswered
                    THEN NamedObjects ELSE {}) :
             Backing(w) # {} =>
                /\ resolved.err = Nil
                /\ resolved.target.Kind = resourceTypePod
                /\ resolved.target.Name \in {cluster.pods[i].name : i \in Backing(w)}
                /\ resolved.target.Namespace = res.Namespace
                /\ resolved.target.Port = res.Port)
    /\ []((ResolveDone /\ res.Kind \in WorkloadKinds /\ resolved.err = Nil) =>
             resolved.target.Kind = resourceTypePod)
    /\ [][res' = res]_vars

C4_Witness ==
    /\ ResolveDone
    /\ res.Kind = resourceTypeDaemonSet
    /\ resolved.err = Nil
    /\ resolved.target.Kind = resourceTypePod
    /\ resolved.target.Name = pod_2
    /\ Len(cluster.pods) = 2

ZeroPodsCase ==
    /\ ResolveDone
    /\ res.Kind \in WorkloadKinds
    /\ QueriesAnswered
    /\ \E w \in NamedObjects : Backing(w) = {}

NoPodsError ==
    /\ resolved.err # Nil
    /\ resolved.err.msg = "no pods found"
    /\ resolved.err.args = <<res.Kind, res.Name, res.Namespace>>
    /\ Cardinality(ListCalls) = 1

\* C5 as stated: when the selector matches zero pods the resolver returns the
\* no-pods error naming kind, name and namespace, returns no descriptor, and
\* has made exactly one list-pods query.
C5_Original == ZeroPodsCase => (NoPodsError /\ resolved.target = Nil)

\* C5 as amended: the same error and the single list-pods query; the value
\* returned beside the error is the input descriptor itself (not nil), with
\* its non-Pod kind: never a resolved pod.
C5_NoBackingPods ==
    ZeroPodsCase =>
        (NoPodsError /\ resolved.target = res /\ resolved.target.Kind # resourceTypePod)

C5_Witness ==
    /\ ZeroPodsCase
    /\ resolved.err # Nil
    /\ resolved.err.msg = "no pods found"
    /\ Len(cluster.pods) = 2
    /\ res.Kind = resourceTypeSvc

\* C10: resolving a Pod-kind descriptor returns that descriptor, all four
\* fields unchanged, with no error, and makes no client call at all.
C10_PodIdentity ==
    (ResolveDone /\ res.Kind = resourceTypePod) =>
        /\ resolved = [target |-> res, err |-> Nil]
        /\ resolved.target \in ResolverTargets
        /\ queries = <<>>

C10_Witness ==
    /\ ResolveDone
    /\ res.Kind = resourceTypePod
    /\ cluster.workloads # {}
    /\ Len(cluster.pods) > 0
    /\ resolved.target.Port = 8080

(***************************************************************************)
(* Properties of an invocation                                             *)
(***************************************************************************)
\* C1 (as stated): whenever runPortForward has built the port-forward request,
\* the descriptor it was built from has kind Pod, for every kind the parser accepts.
C1_Original ==
    pfReq # Nil => pfReq.resource = resourceTypePod

\* C6: the caller's request (system curl or built-in client) has started only
\* if the ready channel has been closed and the caller's receive on it completed.
C6_RequestAfterReady ==
    req.state # "none" => (readyCh = "closed" /\ pc \notin {"parse", "findFreePort", "run", "waitReady"})

C6_Witness ==
    /\ req.state = "inFlight"
    /\ req.peer = "tunnel"
    /\ readyCh = "closed"
    /\ gpc = "forwarding"

ConnectFailed == gerr # Nil /\ readyCh = "open"

C9_Original ==
    (exitStatus # "running" /\ connLost /\ relayed > 0)
        => (exitStatus = "1" /\ printed # {})

(***************************************************************************)
(* Further properties of the resolver                                      *)
(***************************************************************************)
\* the position in the cluster's list order of the first pod backing w
FirstBacking(w) == CHOOSE i \in Backing(w) : \A j \in Backing(w) : i <= j

ManyPodsCase(w) ==
    /\ ResolveDone
    /\ res.Kind \in WorkloadKinds
    /\ QueriesAnswered
    /\ w \in NamedObjects
    /\ Cardinality(Backing(w)) >= 2

\* C11: when the selector matches two or more pods the resolver returns the
\* pod that comes first in the order the list-pods query returned, and a
\* repeated call against the same cluster returns the same result.
C11_FirstPod ==
    /\ [](\A w \in cluster.workloads :
            ManyPodsCase(w) =>
                /\ resolved.err = Nil
                /\ resolved.target.Name = cluster.pods[FirstBacking(w)].name
                /\ resolved.target.Kind = resourceTypePod)
    /\ [][resolved # NoResult => resolved' = resolved]_vars

C11_Witness ==
    /\ \E w \in cluster.workloads : ManyPodsCase(w)
    /\ cluster.pods[1].name = pod_2
    /\ cluster.pods[2].name = pod_1
    /\ resolved.target.Name = pod_2
    /\ Len(queries) = 4

\* the named object is not there to be read: absent, or the read fails
NotFoundCase ==
    /\ ResolveDone
    /\ res.Kind \in WorkloadKinds
    /\ \/ ~cluster.getOK
       \/ ~\E w \in cluster.workloads :
              w.kind = res.Kind /\ w.namespace = res.Namespace /\ w.name = res.Name

\* C12: when the getter of the named Service, Deployment, StatefulSet,
\* DaemonSet or ReplicaSet returns an error, the resolver returns an error
\* naming the kind, the name and the namespace, makes no list-pods query and
\* returns no pod (the value beside the error is the input descriptor).
C12_NotFound ==
    NotFoundCase =>
        /\ resolved.err # Nil
        /\ resolved.err.msg = "failed to get " \o kindWord(res.Kind)
        /\ resolved.err.args = <<res.Name, res.Namespace>>
        /\ ListCalls = {}
        /\ Len(queries) = 1
        /\ resolved.target = res
        /\ resolved.target.Kind # resourceTypePod

C12_Witness ==
    /\ NotFoundCase
    /\ cluster.getOK
    /\ res.Kind = resourceTypeStatefulSet
    /\ \E w \in cluster.workloads : w.kind = resourceTypeStatefulSet /\ w.namespace = ns_k8s
    /\ Len(cluster.pods) = 2
    /\ resolved.err # Nil

(***************************************************************************)
(* Further properties of the parser                                        *)
(***************************************************************************)
Returned == ParseDone /\ parsed.target # Nil

\* C13 (as stated): every descriptor the parser returns has a port in 1..65535.
C13_Original ==
    Returned => (parsed.target.port >= 1 /\ parsed.target.port <= 65535)

NoExplicitPort == addr.port \in {<<>>, <<":">>}

\* C14: the port of a returned descriptor is the URL's explicit port when one
\* is written; without one it is 443 for the scheme https and 80 for any other
\* scheme.
C14_PortSource ==
    Returned =>
        IF NoExplicitPort
        THEN parsed.target.port = (IF rawURL.Scheme = "https" THEN 443 ELSE 80)
        ELSE /\ addr.port \in DOMAIN ExplicitPortValue
             /\ parsed.target.port = ExplicitPortValue[addr.port]

C14_Witness ==
    /\ Returned
    /\ addr.port = <<>>
    /\ rawURL.Scheme = "https"
    /\ parsed.target.port = 443
    /\ addr.labels = <<n_a, ns_k8s, t_pod>>

HasNameAndNamespace == rawURL.ok /\ Len(addr.labels) >= 2

NameOutcome(reached) ==
    /\ Returned =>
          (addr.labels[1] \in ValidNames /\ addr.labels[2] \in ValidNamespaces)
    /\ (ParseDone /\ HasNameAndNamespace /\ reached) =>
          /\ addr.labels[1] \notin ValidNames =>
                parsed = ParseErr("invalid resource name", addr.labels[1])
          /\ (addr.labels[1] \in ValidNames /\ addr.labels[2] \notin ValidNamespaces) =>
                parsed = ParseErr("invalid namespace", addr.labels[2])

\* C15 (as stated): a descriptor is returned only if name and namespace both
\* match ^[a-z0-9]([-a-z0-9]*[a-z0-9])?$; otherwise the error says which of
\* the two failed and echoes its value, and there is no descriptor.
C15_Original == NameOutcome(TRUE)

\* C15 (amended): the same, for addresses that pass the checks made before the
\* names are looked at: at least 3 labels, an explicit port (if any) that
\* converts to an int, and a third label of the vocabulary; when both fail the
\* error is about the name.
C15_NameValidation ==
    NameOutcome(/\ Len(addr.labels) >= 3
                /\ addr.port \notin OverflowPorts
                /\ addr.labels[3] \in DOMAIN ExpectedKind)

C15_Witness ==
    /\ ParseDone
    /\ addr.labels = <<n_web, ns_trail, t_ds>>
    /\ addr.port = <<":">> \o p_80
    /\ parsed = ParseErr("invalid namespace", ns_trail)

FewLabels == rawURL.ok /\ Len(addr.labels) < 3

\* C16: a URL whose host has fewer than 3 dot-separated labels gets the
\* invalid-format error, which prints the URL, and no descriptor, whatever
\* its port and scheme.
C16_FewLabels ==
    (ParseDone /\ FewLabels) =>
        parsed = ParseErr("invalid Kubernetes service URL format", RawText(rawURL))

C16_Witness ==
    /\ ParseDone
    /\ addr.labels = <<n_web, t_svc>>
    /\ addr.port = <<":">> \o p_huge
    /\ rawURL.Scheme = "ftp"
    /\ parsed.err # Nil
    /\ parsed.err.msg = "invalid Kubernetes service URL format"

GpcOrder ==
    <<"none", "start", "resolve", "config", "dial", "listen", "signalReady",
      "forwarding", "returned", "exit1", "done">>
Rank(g) == CHOOSE i \in 1..Len(GpcOrder) : GpcOrder[i] = g

\* the session's state as the specification names it
SessionState ==
    IF gpc = "none" THEN "NoSession"
    ELSE IF ~Running \/ gpc \in {"returned", "exit1", "done"} THEN "Closed"
    ELSE IF gpc = "forwarding" /\ relayed > 0 THEN "Forwarding"
    ELSE IF gpc = "forwarding" THEN "Ready"
    ELSE "Connecting"
StateOrder == <<"NoSession", "Connecting", "Ready", "Forwarding", "Closed">>
StateRank(st) == CHOOSE i \in 1..Len(StateOrder) : StateOrder[i] = st

Started == pc \in {"waitReady", "request", "inRequest", "reqFailed", "cancel", "exit1", "return"}

ReadyObserved ==
    \/ pc \in {"request", "inRequest", "reqFailed", "cancel", "exit1", "return"}
    \/ pc = "exited" /\ req.state # "none"

\* C19 (as stated): on every execution in which the caller observed readiness,
\* by the time the process has ended the caller has cancelled exactly once,
\* and a cancel comes only after the request has completed.
C19_Original ==
    /\ cancels >= 1 => req.state \in {"ok", "failed"}
    /\ (ReadyObserved /\ ~Running) => cancels = 1

\* C19 (amended): the caller cancels at most once and only after its request
\* has completed; whenever main itself goes on to end the process (return
\* after success, os.Exit(1) after a failed request) it has cancelled exactly
\* once before.  (When the tunnel task ends the process first, the caller
\* has not cancelled.)
C19_CancelOnce ==
    /\ cancels <= 1
    /\ cancels = 1 => (req.state \in {"ok", "failed"} /\ stopCh = "closed")
    /\ (pc \in {"exit1", "return"} \/ (pc = "exited" /\ req.state # "none")) =>
          cancels = 1
    /\ pc = "exit1" => (stopCh = "closed" /\ req.state = "failed")

C19_Witness ==
    /\ pc = "exited"
    /\ req.state = "failed"
    /\ cancels = 1
    /\ exitStatus = "1"
    /\ "Error executing request" \in printed

(***************************************************************************)
(* Properties of reconstructURL                                            *)
(***************************************************************************)
\* C20 (as stated): the reconstructed URL has the host localhost:p and the
\* scheme, path, query and fragment of the original URL as it was written.
C20_Original ==
    req.url # Nil =>
        /\ req.url.Host = localhost \o <<":">> \o URLPort(req.url)
        /\ ~Atoi(URLPort(req.url)).err
        /\ Atoi(URLPort(req.url)).val = localPort
        /\ req.url.Scheme = rawURL.Scheme
        /\ req.url.Path = addr.path
        /\ req.url.Query = addr.query
        /\ req.url.Fragment = addr.fragment

(***************************************************************************)
(* Properties of main.go's local URL                                       *)
(***************************************************************************)
\* the host:port of a URL text: what stands between "://" and the path
HostOfText(t) ==
    LET from == IndexOf(t, <<":","/","/">>) + 3
        rest == SubSeq(t, from, Len(t))
        slash == IndexOf(rest, <<"/">>)
    IN IF slash = 0 THEN rest ELSE SubSeq(rest, 1, slash - 1)

\* C21 (as stated): for every accepted svc or pod URL, with or without the
\* .cluster.local suffix and with or without an explicit port, the URL main.go
\* requests has host localhost and the allocated local port.
C21_Original ==
    req.url # Nil => HostOfText(req.url.text) = localhost \o <<":">> \o Itoa(localPort)

(***************************************************************************)
(* Properties of the argument handling                                     *)
(***************************************************************************)
\* the arguments without the one at position i
RemoveAt(as, i) == SubSeq(as, 1, i - 1) \o SubSeq(as, i + 1, Len(as))

\* the options curl was started with: its arguments without the final URL
CurlOptions == SubSeq(req.argv, 2, Len(req.argv) - 1)

\* C22 (as stated): when curl is run, the arguments it gets before the local
\* URL are all the command-line arguments other than the resource URL,
\* unchanged in value and in their original order.
C22_Original ==
    req.argv # Nil =>
        /\ req.argv[1] = a_curl
        /\ \E i \in 1..Len(args) :
              /\ isURL(args[i])
              /\ CurlOptions = RemoveAt(args, i)


\* the stages of an invocation that failed
ParseFailed == parsed # NoResult /\ parsed.err # Nil
PortFailed == "Error finding free port" \in printed
ResolveFailed == resolved # NoResult /\ resolved.err # Nil

\* nothing of the tunnel exists: no goroutine, no request built, no dial, no
\* listener
NoTunnel ==
    /\ gpc = "none"
    /\ pfReq = Nil
    /\ dials = 0
    /\ \A f \in Families : listeners[f] # "tunnel"

\* C23: a failure ends the invocation without any later stage.  After a parse
\* failure no port is allocated, no cluster query is made and no tunnel exists;
\* after a port allocation failure no tunnel exists; after a resolution
\* failure no port-forward request is built and nothing is dialled, ever.  In
\* each case the invocation ends with status 1 and the error printed (at once
\* in main, eventually from the goroutine).
C23_FailureStops ==
    /\ [](ParseFailed =>
            /\ localPort = 0 /\ queries = <<>> /\ NoTunnel
            /\ exitStatus = "1" /\ "Error parsing service URL" \in printed)
    /\ [](PortFailed =>
            /\ localPort = 0 /\ queries = <<>> /\ NoTunnel
            /\ exitStatus = "1")
    /\ [](ResolveFailed =>
            /\ pfReq = Nil /\ dials = 0
            /\ \A f \in Families : listeners[f] # "tunnel"
            /\ req.state = "none")
    /\ (ResolveFailed ~> (exitStatus = "1" /\ "Error in port-forward" \in printed))

C23_Witness ==
    /\ ResolveFailed
    /\ queries # <<>>
    /\ localPort # 0
    /\ pc = "waitReady"
    /\ dials = 0
    /\ exitStatus = "1"
    /\ "Error in port-forward" \in printed


\* C24 (as stated): for a Service address, once the local port is allocated or
\* the goroutine is started the resolution to a pod has completed, and no
\* cluster query is made by the time either exists.
C24_Original ==
    (/\ parsed # NoResult /\ parsed.err = Nil
     /\ parsed.target.kind = resourceTypeSvc
     /\ (localPort # 0 \/ gpc # "none"))
        => resolved # NoResult


\* C25 (as stated): a request that was sent went to a listener of this
\* invocation's tunnel, also when another process holds the allocated port
\* on one of the addresses of localhost.
C25_Original ==
    (req.state # "none" /\ \E f \in Families : listeners[f] = "other")
        => req.peer = "tunnel"


\* C26: the port-forward request maps the allocated local port to the remote
\* port parsed from the URL, in the URL's namespace: the converted descriptor,
\* the resolved target and the request all carry the parsed port and
\* namespace, which are those the address was written with.
C26_PortNamespaceCarried ==
    /\ res # Nil =>
          /\ res.Port = parsed.target.port
          /\ res.Namespace = parsed.target.namespace
    /\ target # Nil =>
          /\ target.Port = parsed.target.port
          /\ target.Namespace = parsed.target.namespace
    /\ pfReq # Nil =>
          /\ pfReq.local = localPort
          /\ localPort \in LocalPorts
          /\ pfReq.remote = parsed.target.port
          /\ pfReq.namespace = parsed.target.namespace
          /\ pfReq.namespace = addr.labels[2]
          /\ addr.port = <<":">> \o p_8080 => pfReq.remote = 8080
          /\ addr.port = <<":">> \o p_80 => pfReq.remote = 80
          /\ addr.port = <<>> =>
                pfReq.remote = IF rawURL.Scheme = "https" THEN 443 ELSE 80

C26_Witness ==
    /\ pfReq # Nil
    /\ parsed.target.kind = resourceTypeSvc
    /\ resolved.err = Nil /\ resolved.target # Nil
    /\ pfReq.remote = 8080
    /\ pfReq.local \in LocalPorts
    /\ pfReq.namespace = ns_default
    /\ gpc = "forwarding"


\* the getter that reads each kind
ExpectedGetter ==
    (resourceTypeSvc :> "GetService") @@ (resourceTypeDeployment :> "GetDeployment")
    @@ (resourceTypeStatefulSet :> "GetStatefulSet")
    @@ (resourceTypeDaemonSet :> "GetDaemonSet")
    @@ (resourceTypeReplicaSet :> "GetReplicaSet")

\* C27: for a Service, Deployment, StatefulSet, DaemonSet or ReplicaSet
\* descriptor the first client call is the getter of that kind with the
\* descriptor's namespace and name; the only other call is a list of pods in
\* the descriptor's namespace with the selector of the object read; the pod
\* chosen is a pod of that namespace carrying every label of the selector, so
\* a pod without one of the labels or of another namespace is never chosen.
C27_SelectorScope ==
    (ResolveDone /\ res.Kind \in WorkloadKinds) =>
        /\ Len(queries) \in {1, 2}
        /\ queries[1] = [op |-> ExpectedGetter[res.Kind],
                         namespace |-> res.Namespace, name |-> res.Name]
        /\ Len(queries) = 2 =>
              \E w \in NamedObjects :
                  queries[2] = [op |-> "ListPods", namespace |-> res.Namespace,
                                selector |-> w.selector]
        /\ resolved.err = Nil =>
              /\ Len(queries) = 2
              /\ resolved.target.Namespace = res.Namespace
              /\ \E i \in 1..Len(cluster.pods) :
                    /\ cluster.pods[i].name = resolved.target.Name
                    /\ cluster.pods[i].namespace = res.Namespace
              /\ \A i \in 1..Len(cluster.pods) :
                    (/\ cluster.pods[i].name = resolved.target.Name
                     /\ cluster.pods[i].namespace = resolved.target.Namespace)
                        => queries[2].selector \subseteq cluster.pods[i].labels

C27_Witness ==
    /\ ResolveDone
    /\ res.Kind = resourceTypeDeployment
    /\ resolved.err = Nil
    /\ Len(cluster.pods) = 2
    /\ cluster.pods[1].namespace = ns_k8s
    /\ cluster.pods[1].name = pod_1
    /\ cluster.pods[2].namespace = ns_default
    /\ resolved.target.Name = pod_2
    /\ queries[2].selector = {"app=web", "tier=db"}


\* C28 (as stated): an invocation whose request completed successfully and
\* that has ended, ended with status 0.
C28_Original ==
    (req.state = "ok" /\ exitStatus # "running") => exitStatus = "0"


\* the pods of the descriptor's namespace, in the order the API lists them
NamespacePods ==
    {i \in 1..Len(cluster.pods) : cluster.pods[i].namespace = res.Namespace}

\* a Service without labels in its selector, in a namespace that has pods
EmptySelectorCase ==
    /\ ResolveDone
    /\ res.Kind = resourceTypeSvc
    /\ QueriesAnswered
    /\ \E w \in NamedObjects : w.selector = {}
    /\ NamespacePods # {}

\* C29: for a Service whose selector has no labels the list query carries the
\* empty selector, which every pod matches: the resolution succeeds with the
\* first pod listed in the Service's namespace, whatever its labels, and does
\* not report that no pods were found.
C29_EmptySelector ==
    EmptySelectorCase =>
        /\ resolved.err = Nil
        /\ Len(queries) = 2
        /\ queries[2] = [op |-> "ListPods", namespace |-> res.Namespace,
                         selector |-> {}]
        /\ resolved.target.Kind = resourceTypePod
        /\ resolved.target.Namespace = res.Namespace
        /\ \E i \in NamespacePods :
              /\ \A j \in NamespacePods : i <= j
              /\ resolved.target.Name = cluster.pods[i].name

C29_Witness ==
    /\ EmptySelectorCase
    /\ Len(cluster.pods) = 2
    /\ cluster.pods[1].namespace = ns_k8s
    /\ cluster.pods[2].namespace = ns_default
    /\ cluster.pods[2].labels = {}
    /\ cluster.pods[1].name # cluster.pods[2].name
    /\ resolved.target.Name = cluster.pods[2].name


\* the first check an address fails, in the order label count, port, kind
\* token, name, namespace; "none" when it passes them all
FirstFailure ==
    IF Len(addr.labels) < 3 THEN "invalid Kubernetes service URL format"
    ELSE IF addr.port \in OverflowPorts THEN "invalid port in URL"
    ELSE IF addr.labels[3] \notin DOMAIN ExpectedKind THEN "unsupported resource type"
    ELSE IF addr.labels[1] \notin ValidNames THEN "invalid resource name"
    ELSE IF addr.labels[2] \notin ValidNamespaces THEN "invalid namespace"
    ELSE "none"

\* C30: for a URL that url.Parse accepts, the parser's error is the one of the
\* first failing check in the order label count, port, kind token, name,
\* namespace, and there is a descriptor exactly when no check fails; so an
\* unsupported kind token with an invalid name gives the unsupported-kind
\* error and an invalid name with an invalid namespace gives the name error.
C30_CheckOrder ==
    (ParseDone /\ rawURL.ok) =>
        /\ FirstFailure = "none" => (parsed.err = Nil /\ parsed.target # Nil)
        /\ FirstFailure # "none" =>
              /\ parsed.target = Nil
              /\ parsed.err # Nil
              /\ parsed.err.msg = FirstFailure
        /\ (/\ Len(addr.labels) >= 3 /\ addr.port \notin OverflowPorts
            /\ addr.labels[3] \notin DOMAIN ExpectedKind
            /\ addr.labels[1] \notin ValidNames)
              => parsed = ParseErr("unsupported resource type", addr.labels[3])
        /\ (/\ Len(addr.labels) >= 3 /\ addr.port \notin OverflowPorts
            /\ addr.labels[3] \in DOMAIN ExpectedKind
            /\ addr.labels[1] \notin ValidNames
            /\ addr.labels[2] \notin ValidNamespaces)
              => parsed = ParseErr("invalid resource name", addr.labels[1])

C30_Witness ==
    /\ ParseDone
    /\ rawURL.ok
    /\ addr.labels = <<n_upper, ns_upper, t_job>>
    /\ addr.port = <<":">> \o p_8080
    /\ parsed.err # Nil
    /\ parsed.err.msg = "unsupported resource type"

====
